---- MODULE Spec2Model ----
(***************************************************************************)
(* Operator-control loop of the mini bot (src/src/opcontrol.c): the drive  *)
(* mixer drive(), and the cyclic body of operatorControl() with its        *)
(* low-speed toggle, claw state machine and arm control.                   *)
(*                                                                         *)
(* togglebtn.h, lfilter.h and main.h are not part of src/: the button      *)
(* tracker, the velocity filter and MAX_SPEED are modelled from spec.md.   *)
(***************************************************************************)
EXTENDS Integers, Sequences, FiniteSets, TLC

(***************************************************************************)
(* Program constants.                                                      *)
(***************************************************************************)
MAX_SPEED == 127
CLAW_SPEED == -60
CLAW_OPEN_DURATION == 30
GRIP_STRENGTH == -40
LOW_SPEED_DIVISOR == 2
\* Largest change of a channel's output per call of the velocity filter.
FILTER_STEP == 64

(***************************************************************************)
(* Inputs.  Each action of the loop takes the sets its inputs are drawn    *)
(* from; a specification fixes them.  drive() on its own (SpecDrive) is    *)
(* run on the whole range [-MAX_SPEED, MAX_SPEED].                         *)
(***************************************************************************)
SpeedRange == (-MAX_SPEED)..MAX_SPEED
\* The buttons registered with toggleBtnInit: group 8 LEFT, RIGHT, DOWN.
Tracked == {"8L", "8R", "8D"}
\* Spec: every button free in every cycle, the drive sticks at rest.
StickAtRest == {0}
ArmAxisSamples == {-MAX_SPEED, 0, 65}
ButtonLevels == [Tracked -> BOOLEAN]


VARIABLES
    pc,         \* position of operatorControl() in the loop body
    lowSpeed,   \* bool lowSpeed
    closeClaw,  \* bool closeClaw
    i,          \* int8_t i: the claw progress counter
    btnPrev,    \* tracker: previous sampled raw level of each button
    btnCur,     \* tracker: current sampled raw level of each button
    lastSpeed,  \* velocity filter: last output of each filtered channel
    sent,       \* motorSet calls <<channel, value>> of the latest step
    calls,      \* tracker calls of the cycle so far, in call order
    pre,        \* history: closeClaw and i on entry to the claw code
    sc,         \* history: progress of a close/open sequence of the claw
    drv,        \* drive() under SpecDrive: its arguments and locals
    registered, \* tracker: the buttons registered with toggleBtnInit
    nSet,       \* history: motorSet calls per channel in the cycle so far
    hist        \* history kept by the observers a specification adds

vars == <<pc, lowSpeed, closeClaw, i, btnPrev, btnCur, lastSpeed, sent,
          calls, pre, sc, drv, registered, nSet, hist>>

(***************************************************************************)
(* C arithmetic.                                                           *)
(***************************************************************************)
Abs(x) == IF x < 0 THEN -x ELSE x

Sign(x) == IF x > 0 THEN 1 ELSE IF x < 0 THEN -1 ELSE 0

\* C integer division: the quotient is truncated toward zero.
TruncDiv(a, b) == Sign(a) * Sign(b) * (Abs(a) \div Abs(b))

RECURSIVE BitLen(_)
\* Number of binary digits of n >= 0.
BitLen(n) == IF n = 0 THEN 0 ELSE 1 + BitLen(n \div 2)

(***************************************************************************)
(* drive(), lines 63-107.                                                  *)
(*                                                                         *)
(* Floating point.  The target computes in IEEE single precision.          *)
(*  - Shaping (lines 71-74): m = x/127, m *= fabs(m), m *= 127 is x*|x|/127*)
(*    with a relative error below 2^-21, an absolute error below 1e-4.     *)
(*    For x outside {0, 127, -127} the exact value is at least 1/127 away  *)
(*    from every integer (127 is prime), and for those three inputs every  *)
(*    step is exact.  The conversion to int8_t truncates toward zero, so   *)
(*    the stored result is exactly Sign(x) * floor(x*x / 127).             *)
(*  - Normalisation (lines 94-96) divides by a rounded scale, and there    *)
(*    the rounding decides the result (a largest speed of 254 comes out    *)
(*    127, one of 208 comes out 126): both divisions are computed          *)
(*    bit-exactly below.                                                   *)
(***************************************************************************)

\* A plausible slip: m *= m, which loses the sign of the input.
SquareInputNoFabs(x) == (x * x) \div MAX_SPEED

\* Lines 71-74 (and 76-79): the shaped input as stored back in the int8_t.
SquareInput(x) == Sign(x) * ((x * x) \div MAX_SPEED)

\* Lines 82-83: speed[0] (left), speed[1] (right).
Mix(d, t) == <<d + t, (-d) + t>>

\* Lines 85-91.
MaxRawSpeed(speed) ==
    IF Abs(speed[1]) > Abs(speed[2]) THEN Abs(speed[1]) ELSE Abs(speed[2])

\* A plausible slip: the quotient taken in integer arithmetic (no float cast).
ScaleMantissaIntDiv(maxRaw) == (maxRaw \div MAX_SPEED) * (2^23)

\* Line 94: scale = (float) maxRawSpeed / MAX_SPEED, as the integer m with
\* scale = m * 2^-23.  For MAX_SPEED <= maxRaw <= 2*MAX_SPEED the quotient is
\* in [1, 2], where single precision has 23 fraction bits; round to nearest,
\* ties to even.
ScaleMantissa(maxRaw) ==
    LET n == maxRaw * (2^23)
        q == n \div MAX_SPEED
        r == n % MAX_SPEED
    IN  IF 2 * r > MAX_SPEED \/ (2 * r = MAX_SPEED /\ q % 2 = 1)
        THEN q + 1 ELSE q

\* Lines 95-96: speed[k] /= scale, i.e. (int16_t)((float) speed[k] / scale).
\* With a = |s| the exact quotient is I + R/m.  The rounded quotient reaches
\* I + 1 exactly when the remaining distance (m - R)/m is at most half a unit
\* in the last place of the binade of I, 2^(BitLen(I) - 25) (the tie goes to
\* I + 1, whose significand is even); the conversion then truncates.
DivByScale(s, m) ==
    LET a == Abs(s)
        n == a * (2^23)
        I == n \div m
        R == n % m
        up == R # 0 /\ (m - R) <= m \div (2^(25 - BitLen(I)))
    IN  Sign(s) * (IF up THEN I + 1 ELSE I)

\* A plausible slip: >= in the guard of line 93.
NeedsScalingInclusive(maxRaw) == maxRaw >= MAX_SPEED

\* Line 93.
NeedsScaling(maxRaw) == maxRaw > MAX_SPEED

\* Lines 93-97: the speeds after normalisation, and whether lines 94-96 ran.
Normalize(speed) ==
    LET maxRaw == MaxRawSpeed(speed) IN
    IF NeedsScaling(maxRaw)
    THEN [speed |-> <<DivByScale(speed[1], ScaleMantissa(maxRaw)),
                      DivByScale(speed[2], ScaleMantissa(maxRaw))>>,
          divided |-> TRUE]
    ELSE [speed |-> speed, divided |-> FALSE]

\* lfilter's getfSpeed: the output moves from the channel's last output toward
\* the target by at most FILTER_STEP.
getfSpeed(last, target) ==
    IF target >= last
    THEN (IF target - last > FILTER_STEP THEN last + FILTER_STEP ELSE target)
    ELSE (IF last - target > FILTER_STEP THEN last - FILTER_STEP ELSE target)

\* Lines 68-80, for one of the two parameters.
Shape(x, squareInputs) == IF squareInputs THEN SquareInput(x) ELSE x

\* A plausible slip: the filter applied to the mixed speeds, the normalisation
\* to its outputs.
DriveFilterFirst(d, t, squareInputs, last) ==
    LET sd == Shape(d, squareInputs)
        st == Shape(t, squareInputs)
        mixed == Mix(sd, st)
        fl == getfSpeed(last["FL"], mixed[1])
        fr == getfSpeed(last["FR"], mixed[2])
        norm == Normalize(<<fl, fr>>)
    IN  [drive |-> sd, turn |-> st, mixed |-> mixed,
         speed |-> norm.speed, divided |-> norm.divided,
         last |-> [last EXCEPT !["FL"] = fl, !["FR"] = fr],
         sent |-> << <<"FL", norm.speed[1]>>, <<"FR", norm.speed[2]>>,
                     <<"BL", norm.speed[1]>>, <<"BR", norm.speed[2]>> >>]

\* drive(drive, turn, squareInputs) with the filter memory `last`: the locals
\* at the points the claims speak of, the new filter memory and the motorSet
\* calls of lines 103-106, in order.
Drive(d, t, squareInputs, last) ==
    LET sd == Shape(d, squareInputs)
        st == Shape(t, squareInputs)
        mixed == Mix(sd, st)
        norm == Normalize(mixed)
        fl == getfSpeed(last["FL"], norm.speed[1])
        fr == getfSpeed(last["FR"], norm.speed[2])
    IN  [drive |-> sd, turn |-> st, mixed |-> mixed,
         speed |-> norm.speed, divided |-> norm.divided,
         last |-> [last EXCEPT !["FL"] = fl, !["FR"] = fr],
         sent |-> << <<"FL", fl>>, <<"FR", fr>>, <<"BL", fl>>, <<"BR", fr>> >>]

(***************************************************************************)
(* Toggle-button tracker (togglebtn.h), from spec.md 4.2: the state of a   *)
(* button is derived from its last two sampled raw levels, and updateAll   *)
(* moves every button on by one sample.                                    *)
(***************************************************************************)
\* A plausible slip: PRESSED for as long as the button is down.
toggleBtnGetLevel(prev, cur) ==
    IF cur THEN "PRESSED" ELSE (IF prev THEN "RELEASED" ELSE "IDLE")

toggleBtnGet(prev, cur) ==
    IF cur THEN (IF prev THEN "HELD" ELSE "PRESSED")
           ELSE (IF prev THEN "RELEASED" ELSE "IDLE")

\* The state toggleBtnGet(JOYSTICK_SLOT, 8, b) returns in the current state.
Get(b) == toggleBtnGet(btnPrev[b], btnCur[b])

\* The entry a toggleBtnGet call leaves in the call log.
GetCall(b) == <<"toggleBtnGet", b, Get(b)>>

(***************************************************************************)
(* operatorControl(), lines 126-226.                                       *)
(***************************************************************************)

\* A plausible slip: the update placed before the claw code.
StepAfterUpdateEarly(p) ==
    CASE p = "lowspeed" -> "drive"
      [] p = "drive"    -> "update"
      [] p = "update"   -> "claw"
      [] p = "claw"     -> "arm"
      [] p = "arm"      -> "delay"
      [] p = "delay"    -> "lowspeed"

\* The order of the loop body, lines 145-225: low-speed toggle (147-149),
\* drive code (152-167), claw code (171-195), arm code (198-221),
\* toggleBtnUpdateAll (223), delay (224), and round again.
StepAfter(p) ==
    CASE p = "lowspeed" -> "drive"
      [] p = "drive"    -> "claw"
      [] p = "claw"     -> "arm"
      [] p = "arm"      -> "update"
      [] p = "update"   -> "delay"
      [] p = "delay"    -> "lowspeed"

\* A plausible slip: the flag flips in every cycle the button is down.
LowSpeedAfterWhileDown(st, ls) == IF st \in {"PRESSED", "HELD"} THEN ~ls ELSE ls

\* Lines 147-149: lowSpeed after the toggle, st being the state of 8 RIGHT.
LowSpeedAfter(st, ls) == IF st = "PRESSED" THEN ~ls ELSE ls

\* Lines 154-158 (JOYSTICK_ARM is defined).
TurnSpeed(up, down, t) == IF up \/ down THEN 0 ELSE t

\* Lines 163-167: the arguments passed to drive().
DriveArgs(ls, d, t) ==
    IF ls THEN <<TruncDiv(d, LOW_SPEED_DIVISOR), TruncDiv(t, LOW_SPEED_DIVISOR)>>
          ELSE <<d, t>>

\* A plausible slip: the sign of the open direction.
ClawHeldWrongSign(cc, cnt) == [closeClaw |-> cc, i |-> cnt, cmd |-> CLAW_SPEED]

\* A plausible slip: the reset of the release edge done while HELD as well.
ClawHeldResets(cc, cnt) == [closeClaw |-> FALSE, i |-> 0, cmd |-> -CLAW_SPEED]

\* Line 172: the claw-open button is HELD.
ClawHeld(cc, cnt) == [closeClaw |-> cc, i |-> cnt, cmd |-> -CLAW_SPEED]

\* A plausible slip: the counter is not reset.
ClawReleasedKeepsCounter(cc, cnt) == [closeClaw |-> FALSE, i |-> cnt, cmd |-> 0]

\* Lines 174-176: the claw-open button is RELEASED.
ClawReleased(cc, cnt) == [closeClaw |-> FALSE, i |-> 0, cmd |-> 0]

\* Lines 178-180: closeClaw after the toggle, st being the state of 8 DOWN.
ClawToggle(st, cc) == IF st = "PRESSED" THEN ~cc ELSE cc

\* A plausible slip: the two closing speeds the wrong way round.
ClawRampSpeedsSwapped(cc, cnt) ==
    IF cc
    THEN (IF cnt < CLAW_OPEN_DURATION
          THEN [closeClaw |-> cc, i |-> cnt + 1, cmd |-> GRIP_STRENGTH]
          ELSE [closeClaw |-> cc, i |-> cnt, cmd |-> CLAW_SPEED])
    ELSE (IF cnt > 0
          THEN [closeClaw |-> cc, i |-> cnt - 1, cmd |-> -CLAW_SPEED]
          ELSE [closeClaw |-> cc, i |-> cnt, cmd |-> 0])

\* A plausible slip: <= in the guard of line 183.
ClawRampOffByOne(cc, cnt) ==
    IF cc
    THEN (IF cnt <= CLAW_OPEN_DURATION
          THEN [closeClaw |-> cc, i |-> cnt + 1, cmd |-> CLAW_SPEED]
          ELSE [closeClaw |-> cc, i |-> cnt, cmd |-> GRIP_STRENGTH])
    ELSE (IF cnt > 0
          THEN [closeClaw |-> cc, i |-> cnt - 1, cmd |-> -CLAW_SPEED]
          ELSE [closeClaw |-> cc, i |-> cnt, cmd |-> 0])

\* Lines 182-194: the ramp.
ClawRamp(cc, cnt) ==
    IF cc
    THEN (IF cnt < CLAW_OPEN_DURATION
          THEN [closeClaw |-> cc, i |-> cnt + 1, cmd |-> CLAW_SPEED]
          ELSE [closeClaw |-> cc, i |-> cnt, cmd |-> GRIP_STRENGTH])
    ELSE (IF cnt > 0
          THEN [closeClaw |-> cc, i |-> cnt - 1, cmd |-> -CLAW_SPEED]
          ELSE [closeClaw |-> cc, i |-> cnt, cmd |-> 0])

\* A plausible slip: the toggle read before the override is looked at.
ClawCodeToggleFirst(openSt, downSt, cc, cnt) ==
    IF openSt = "HELD" THEN ClawHeld(ClawToggle(downSt, cc), cnt)
    ELSE IF openSt = "RELEASED" THEN ClawReleased(cc, cnt)
    ELSE ClawRamp(ClawToggle(downSt, cc), cnt)

\* Lines 171-195: closeClaw, i and the claw command after the claw code,
\* openSt and downSt being the states of 8 LEFT and 8 DOWN.
ClawCode(openSt, downSt, cc, cnt) ==
    IF openSt = "HELD" THEN ClawHeld(cc, cnt)
    ELSE IF openSt = "RELEASED" THEN ClawReleased(cc, cnt)
    ELSE ClawRamp(ClawToggle(downSt, cc), cnt)

\* Lines 171, 173, 178: the toggleBtnGet calls the claw code makes, in order.
ClawGets(openSt) ==
    IF openSt = "HELD" THEN <<GetCall("8L")>>
    ELSE IF openSt = "RELEASED" THEN <<GetCall("8L"), GetCall("8L")>>
    ELSE <<GetCall("8L"), GetCall("8L"), GetCall("8D")>>

\* A plausible slip: the axis value not divided by MAX_SPEED before squaring.
ArmSpeedIntUnscaled(up, a) == IF up THEN a * Abs(a) ELSE 0

\* Lines 199-204 and the casts of lines 216-220: (int) armSpeed and
\* (int) -armSpeed.  armSpeed is a/127 * (|a/127| * 127), which truncates to
\* Sign(a) * floor(a*a / 127) as in drive().
ArmSpeedInt(up, a) == IF up THEN Sign(a) * ((a * a) \div MAX_SPEED) ELSE 0

NegArmSpeedInt(up, a) == IF up THEN Sign(-a) * ((a * a) \div MAX_SPEED) ELSE 0

\* A plausible slip: the low-speed branch without the sign of the right side.
ArmCommandsSameSign(ls, up, a) ==
    IF ls THEN <<TruncDiv(ArmSpeedInt(up, a), LOW_SPEED_DIVISOR),
                 TruncDiv(ArmSpeedInt(up, a), LOW_SPEED_DIVISOR)>>
          ELSE <<ArmSpeedInt(up, a), NegArmSpeedInt(up, a)>>

\* Lines 215-221: the commands of the left and the right arm motor.
ArmCommands(ls, up, a) ==
    IF ls THEN <<TruncDiv(ArmSpeedInt(up, a), LOW_SPEED_DIVISOR),
                 TruncDiv(NegArmSpeedInt(up, a), LOW_SPEED_DIVISOR)>>
          ELSE <<ArmSpeedInt(up, a), NegArmSpeedInt(up, a)>>

(***************************************************************************)
(* History of the claw, kept for the properties: it reads the program and  *)
(* the program does not read it.  A sequence starts from the baseline      *)
(* (counter 0, closeClaw false, claw-open button idle): "closing" n is the *)
(* n-th cycle since the flip that started it, "opening" n the n-th cycle   *)
(* since a flip made after CLAW_OPEN_DURATION closing cycles or more; n    *)
(* stops counting at CLAW_OPEN_DURATION + 1.  "off" is every other case.   *)
(***************************************************************************)
ScCap == CLAW_OPEN_DURATION + 1

ScBase == [ph |-> "base", n |-> 0]

ScCount(n) == IF n < ScCap THEN n + 1 ELSE ScCap

ScSettled(ccAfter, iAfter) ==
    IF ~ccAfter /\ iAfter = 0 THEN ScBase ELSE [ph |-> "off", n |-> 0]

ScAfter(s, openSt, ccBefore, ccAfter, iAfter) ==
    IF openSt = "RELEASED" THEN ScSettled(ccAfter, iAfter)
    ELSE IF openSt # "IDLE" THEN [ph |-> "off", n |-> 0]
    ELSE IF ccAfter # ccBefore
    THEN (IF s.ph = "base" \/ (s.ph = "opening" /\ s.n = ScCap)
          THEN [ph |-> "closing", n |-> 1]
          ELSE IF s.ph = "closing" /\ s.n >= CLAW_OPEN_DURATION
          THEN [ph |-> "opening", n |-> 1]
          ELSE ScSettled(ccAfter, iAfter))
    ELSE (IF s.ph \in {"closing", "opening"}
          THEN [ph |-> s.ph, n |-> ScCount(s.n)]
          ELSE ScSettled(ccAfter, iAfter))

NoPre == [valid |-> FALSE, closeClaw |-> FALSE, i |-> 0]

DrvIdle == [state |-> "idle", argDrive |-> 0, argTurn |-> 0,
            squareInputs |-> FALSE, drive |-> 0, turn |-> 0,
            mixed |-> <<0, 0>>, speed |-> <<0, 0>>, divided |-> FALSE]

\* The seven motor channels: the drive motors, the claw, the two arm motors.
Channels == {"FL", "FR", "BL", "BR", "CLAW", "LARM", "RARM"}

NoSets == [ch \in Channels |-> 0]

\* The per-channel counts after the motorSet calls s.
CountSent(n, s) ==
    [ch \in Channels |-> n[ch] + Cardinality({k \in 1..Len(s) : s[k][1] = ch})]

\* A plausible slip: the registration of line 140 left out.
StartupRegsWithoutDown == {"8L", "8R"}

\* Lines 130, 131, 140: the buttons operatorControl() registers.
StartupRegs == {"8L", "8R", "8D"}

\* toggleBtnInit for the buttons bs (spec.md 3 and 4.2: the state of a button
\* is created on its first registration and lives to the end of the process;
\* registering it again leaves it alone).  lv is btnPrev or btnCur.
toggleBtnInit(bs, reg, lv) ==
    [b \in Tracked |-> IF b \in bs /\ b \notin reg THEN FALSE ELSE lv[b]]

(***************************************************************************)
(* Observers.  The actions of the program leave hist alone; a              *)
(* specification whose properties need a history joins an observer to the  *)
(* step it watches (the step /\ the new value of hist), and every other    *)
(* step keeps hist as it is.                                               *)
(***************************************************************************)
NoRun == [on |-> FALSE, k |-> 0, n |-> 0]

NoCall == [on |-> FALSE, args |-> <<0, 0>>, last |-> <<0, 0>>]

NoCtl == [seen |-> "none", up154 |-> FALSE, turnAxis |-> 0, turnSpeed |-> 0,
          up199 |-> FALSE]

NoHist == [log |-> <<>>, openUsed |-> FALSE, net |-> 0, run |-> NoRun,
           steady |-> 0, call |-> NoCall, ctl |-> NoCtl]

(***************************************************************************)
(* The state when the loop is entered (lines 129-143): the flags and the   *)
(* counter as initialised, the three buttons registered with no level      *)
(* sampled high yet, the filter memory zero.                               *)
(***************************************************************************)
Init ==
    /\ pc = "lowspeed"
    /\ lowSpeed = FALSE
    /\ closeClaw = FALSE
    /\ i = 0
    /\ btnPrev = [b \in Tracked |-> FALSE]
    /\ btnCur = [b \in Tracked |-> FALSE]
    /\ lastSpeed = [c \in {"FL", "FR"} |-> 0]
    /\ sent = <<>>
    /\ calls = <<>>
    /\ pre = NoPre
    /\ sc = ScBase
    /\ drv = DrvIdle
    /\ registered = StartupRegs
    /\ nSet = NoSets
    /\ hist = NoHist

\* Lines 147-149.
LowSpeedToggle ==
    /\ pc = "lowspeed"
    /\ lowSpeed' = LowSpeedAfter(Get("8R"), lowSpeed)
    /\ calls' = <<GetCall("8R")>>
    /\ sent' = <<>>
    /\ pc' = StepAfter(pc)
    /\ UNCHANGED <<closeClaw, i, btnPrev, btnCur, lastSpeed, pre, sc, drv,
                   registered, nSet>>

\* Lines 152-167 with the values read: the drive axis d, the turn axis t,
\* the levels up and down of 6 UP and 6 DOWN; drive() is called.
DriveWith(d, t, up, down) ==
    /\ pc = "drive"
    /\ LET args == DriveArgs(lowSpeed, d, TurnSpeed(up, down, t))
           r == Drive(args[1], args[2], TRUE, lastSpeed)
       IN  /\ lastSpeed' = r.last
           /\ sent' = r.sent
    /\ nSet' = CountSent(nSet, sent')
    /\ pc' = StepAfter(pc)
    /\ UNCHANGED <<lowSpeed, closeClaw, i, btnPrev, btnCur, calls, pre, sc, drv,
                   registered>>

\* Lines 152-167: the axes and the arm buttons are read, drive() is called.
DriveCode(DriveAxis, TurnAxis) ==
    \E d \in DriveAxis, t \in TurnAxis, up \in BOOLEAN, down \in BOOLEAN :
        DriveWith(d, t, up, down)

\* Lines 171-195.
ClawStep ==
    /\ pc = "claw"
    /\ LET r == ClawCode(Get("8L"), Get("8D"), closeClaw, i)
       IN  /\ closeClaw' = r.closeClaw
           /\ i' = r.i
           /\ sent' = << <<"CLAW", r.cmd>> >>
           /\ sc' = ScAfter(sc, Get("8L"), closeClaw, r.closeClaw, r.i)
    /\ calls' = calls \o ClawGets(Get("8L"))
    /\ pre' = [valid |-> TRUE, closeClaw |-> closeClaw, i |-> i]
    /\ nSet' = CountSent(nSet, sent')
    /\ pc' = StepAfter(pc)
    /\ UNCHANGED <<lowSpeed, btnPrev, btnCur, lastSpeed, drv, registered>>

\* Lines 198-221 with the values read: the level up of 6 UP, the arm axis a.
ArmWith(up, a) ==
    /\ pc = "arm"
    /\ LET c == ArmCommands(lowSpeed, up, a)
       IN  sent' = << <<"LARM", c[1]>>, <<"RARM", c[2]>> >>
    /\ pre' = NoPre
    /\ nSet' = CountSent(nSet, sent')
    /\ pc' = StepAfter(pc)
    /\ UNCHANGED <<lowSpeed, closeClaw, i, btnPrev, btnCur, lastSpeed, calls,
                   sc, drv, registered>>

\* Lines 198-221.
ArmCode(ArmAxis) == \E up \in BOOLEAN, a \in ArmAxis : ArmWith(up, a)

\* Line 223: toggleBtnUpdateAll.  Every button's current level becomes its
\* previous level and the level sampled now becomes its current level.
UpdateAll(Levels) ==
    /\ pc = "update"
    /\ btnPrev' = btnCur
    /\ btnCur' \in Levels
    /\ calls' = Append(calls, <<"toggleBtnUpdateAll", "", "">>)
    /\ sent' = <<>>
    /\ pc' = StepAfter(pc)
    /\ UNCHANGED <<lowSpeed, closeClaw, i, lastSpeed, pre, sc, drv, registered,
                   nSet>>

\* Line 224: delay(20), the end of the cycle.
Delay ==
    /\ pc = "delay"
    /\ calls' = <<>>
    /\ nSet' = NoSets
    /\ pc' = StepAfter(pc)
    /\ UNCHANGED <<lowSpeed, closeClaw, i, btnPrev, btnCur, lastSpeed, sent,
                   pre, sc, drv, registered>>

Next ==
    \/ LowSpeedToggle /\ UNCHANGED hist
    \/ DriveCode(StickAtRest, StickAtRest) /\ UNCHANGED hist
    \/ ClawStep /\ UNCHANGED hist
    \/ ArmCode(ArmAxisSamples) /\ UNCHANGED hist
    \/ UpdateAll(ButtonLevels) /\ UNCHANGED hist
    \/ Delay /\ UNCHANGED hist

Spec == Init /\ [][Next]_vars

(***************************************************************************)
(* drive() on its own: one call on every pair of inputs of the valid range *)
(* and both values of squareInputs, the filter memory at its start value.  *)
(***************************************************************************)
InitDrive ==
    /\ pc = "lowspeed"
    /\ lowSpeed = FALSE
    /\ closeClaw = FALSE
    /\ i = 0
    /\ btnPrev = [b \in Tracked |-> FALSE]
    /\ btnCur = [b \in Tracked |-> FALSE]
    /\ lastSpeed = [c \in {"FL", "FR"} |-> 0]
    /\ sent = <<>>
    /\ calls = <<>>
    /\ pre = NoPre
    /\ sc = ScBase
    /\ registered = StartupRegs
    /\ nSet = NoSets
    /\ hist = NoHist
    /\ \E d \in SpeedRange, t \in SpeedRange, sq \in BOOLEAN :
         drv = [DrvIdle EXCEPT !.state = "called", !.argDrive = d,
                               !.argTurn = t, !.squareInputs = sq]

\* Lines 63-107, the whole call.
DriveCall ==
    /\ drv.state = "called"
    /\ LET r == Drive(drv.argDrive, drv.argTurn, drv.squareInputs, lastSpeed)
       IN  /\ drv' = [drv EXCEPT !.state = "returned", !.drive = r.drive,
                                 !.turn = r.turn, !.mixed = r.mixed,
                                 !.speed = r.speed, !.divided = r.divided]
           /\ lastSpeed' = r.last
           /\ sent' = r.sent
    /\ UNCHANGED <<pc, lowSpeed, closeClaw, i, btnPrev, btnCur, calls, pre, sc,
                   registered, nSet>>

NextDrive == DriveCall /\ UNCHANGED hist

SpecDrive == InitDrive /\ [][NextDrive]_vars

(***************************************************************************)
(* The task.  The host starts operatorControl() when the robot is enabled, *)
(* stops it at any point when the robot is disabled, and starts it again   *)
(* from line 126 at the next enable.  The locals of a stopped run are      *)
(* gone: the flags and the counter keep a stale value until lines 129-143  *)
(* assign them.  The tracker and the filter keep their state in the        *)
(* modules they belong to, for the lifetime of the process (spec.md 3).    *)
(***************************************************************************)
DriveAxisSamples == {0, MAX_SPEED}

\* Process start: operatorControl() not entered yet, nothing registered.
InitTask ==
    /\ pc = "start"
    /\ lowSpeed = FALSE
    /\ closeClaw = FALSE
    /\ i = 0
    /\ btnPrev = [b \in Tracked |-> FALSE]
    /\ btnCur = [b \in Tracked |-> FALSE]
    /\ lastSpeed = [c \in {"FL", "FR"} |-> 0]
    /\ sent = <<>>
    /\ calls = <<>>
    /\ pre = NoPre
    /\ sc = ScBase
    /\ drv = DrvIdle
    /\ registered = {}
    /\ nSet = NoSets
    /\ hist = NoHist

\* Lines 129-143: the declarations with their initialisers and the three
\* toggleBtnInit calls.  Nothing here touches the velocity filter.
Startup ==
    /\ pc = "start"
    /\ lowSpeed' = FALSE
    /\ closeClaw' = FALSE
    /\ i' = 0
    /\ registered' = registered \cup StartupRegs
    /\ btnPrev' = toggleBtnInit(StartupRegs, registered, btnPrev)
    /\ btnCur' = toggleBtnInit(StartupRegs, registered, btnCur)
    /\ pc' = "lowspeed"
    /\ UNCHANGED <<lastSpeed, sent, calls, pre, sc, drv, nSet>>

\* The host stops the task, wherever it is in the loop.
Stop ==
    /\ pc # "start"
    /\ pc' = "start"
    /\ sent' = <<>>
    /\ calls' = <<>>
    /\ pre' = NoPre
    /\ sc' = ScBase
    /\ nSet' = NoSets
    /\ UNCHANGED <<lowSpeed, closeClaw, i, btnPrev, btnCur, lastSpeed, drv,
                   registered>>

NextTask ==
    \/ Startup /\ UNCHANGED hist
    \/ LowSpeedToggle /\ UNCHANGED hist
    \/ DriveCode(DriveAxisSamples, StickAtRest) /\ UNCHANGED hist
    \/ ClawStep /\ UNCHANGED hist
    \/ ArmCode(ArmAxisSamples) /\ UNCHANGED hist
    \/ UpdateAll(ButtonLevels) /\ UNCHANGED hist
    \/ Delay /\ UNCHANGED hist
    \/ Stop /\ UNCHANGED hist

SpecTask == InitTask /\ [][NextTask]_vars

(***************************************************************************)
(* Properties of the claw (Spec).  pre.valid marks the state right after   *)
(* the claw code of a cycle: sent holds its one motorSet call, pre the     *)
(* values closeClaw and i had before it, and the tracker still has the     *)
(* button states the claw code read.                                       *)
(***************************************************************************)
ClawCmd == sent[1][2]

OpenSt == Get("8L")

(* C1: from the baseline (counter 0, closeClaw false, the claw-open button
   left alone) a press edge of the claw-toggle button gives the claw motor
   CLAW_SPEED in each of the next CLAW_OPEN_DURATION cycles, the press cycle
   included, and GRIP_STRENGTH from the cycle after that on while closeClaw
   stays true; a second press edge then gives it -CLAW_SPEED for exactly
   CLAW_OPEN_DURATION cycles, and 0 after them. *)
C1_ClawFullCycle ==
    pre.valid =>
      /\ (sc.ph = "closing" /\ sc.n <= CLAW_OPEN_DURATION)
            => (ClawCmd = CLAW_SPEED /\ i = sc.n)
      /\ (sc.ph = "closing" /\ sc.n = ScCap)
            => (ClawCmd = GRIP_STRENGTH /\ i = CLAW_OPEN_DURATION)
      /\ (sc.ph = "opening" /\ sc.n <= CLAW_OPEN_DURATION)
            => (ClawCmd = -CLAW_SPEED /\ i = CLAW_OPEN_DURATION - sc.n)
      /\ (sc.ph = "opening" /\ sc.n = ScCap)
            => (ClawCmd = 0 /\ i = 0)

\* The whole sequence has run: closed, gripped, opened, and now idle.
C1_Witness ==
    pre.valid /\ sc.ph = "opening" /\ sc.n = ScCap /\ ClawCmd = 0

(* C2 as claimed: in every cycle in which the claw-open button is down, its
   press cycle included, the claw motor gets -CLAW_SPEED and the counter is 0
   and closeClaw false at the end of the cycle. *)
C2_OverrideWhileDown ==
    (pre.valid /\ btnCur["8L"])
        => (ClawCmd = -CLAW_SPEED /\ i = 0 /\ ~closeClaw)

(* C2 amended: in every cycle in which the tracker reports HELD for the
   claw-open button the claw motor gets -CLAW_SPEED and the counter and
   closeClaw keep their values; they are 0 and false at the end of the cycle
   of the release edge. *)
C2_OverrideWhileHeld ==
    /\ (pre.valid /\ OpenSt = "HELD")
          => (ClawCmd = -CLAW_SPEED /\ i = pre.i /\ closeClaw = pre.closeClaw)
    /\ (pre.valid /\ OpenSt = "RELEASED") => (i = 0 /\ ~closeClaw)

\* The button is held with the claw fully closed.
C2_Witness ==
    /\ pre.valid /\ OpenSt = "HELD"
    /\ pre.closeClaw /\ pre.i = CLAW_OPEN_DURATION
    /\ ClawCmd = -CLAW_SPEED

\* The toggle and the ramp did nothing in the cycle: no closing command, the
\* counter and closeClaw as before, or as the release edge resets them.
ClawLogicBypassed ==
    /\ ClawCmd \notin {CLAW_SPEED, GRIP_STRENGTH}
    /\ i = pre.i \/ (OpenSt = "RELEASED" /\ i = 0)
    /\ closeClaw = pre.closeClaw \/ (OpenSt = "RELEASED" /\ ~closeClaw)

(* C3 as claimed: in every cycle in which the claw-open button is down or on
   its release edge, the claw-toggle button and the ramp have no effect. *)
C3_PrecedenceWhileDown ==
    (pre.valid /\ (btnCur["8L"] \/ OpenSt = "RELEASED")) => ClawLogicBypassed

(* C3 amended: in every cycle in which the tracker reports HELD or RELEASED
   for the claw-open button, the claw-toggle button and the ramp have no
   effect: no closing command, no ramp step of the counter, no flip of
   closeClaw by a press edge of the claw-toggle button. *)
C3_PrecedenceWhileHeld ==
    (pre.valid /\ OpenSt \in {"HELD", "RELEASED"}) => ClawLogicBypassed

\* The claw-toggle button is pressed in a cycle of the override, with the
\* claw closing and the ramp not yet at its end.
C3_Witness ==
    /\ pre.valid /\ OpenSt = "HELD" /\ Get("8D") = "PRESSED"
    /\ pre.closeClaw /\ pre.i < CLAW_OPEN_DURATION /\ pre.i > 0
    /\ closeClaw /\ i = pre.i

(* C4: in the cycle in which the tracker reports RELEASED for the claw-open
   button the claw motor gets 0, and after it the counter is 0 and closeClaw
   false, whatever they were before. *)
C4_ReleaseEdge ==
    (pre.valid /\ OpenSt = "RELEASED")
        => (ClawCmd = 0 /\ i = 0 /\ ~closeClaw)

\* Released with the claw fully closed.
C4_Witness ==
    /\ pre.valid /\ OpenSt = "RELEASED"
    /\ pre.closeClaw /\ pre.i = CLAW_OPEN_DURATION
    /\ i = 0 /\ ~closeClaw

(* C5: the claw progress counter is within [0, CLAW_OPEN_DURATION] in every
   reachable state. *)
C5_CounterInRange == i \in 0..CLAW_OPEN_DURATION

\* The ramp ran with the counter at its upper end and left it there.
C5_Witness ==
    /\ pre.valid /\ pre.closeClaw /\ pre.i = CLAW_OPEN_DURATION
    /\ closeClaw /\ i = CLAW_OPEN_DURATION /\ ClawCmd = GRIP_STRENGTH

(***************************************************************************)
(* Properties of the loop (Spec).                                          *)
(***************************************************************************)

(* C6: lowSpeed changes value exactly in the cycles whose sampled level of
   group 8 RIGHT is high after a low one, in the low-speed toggle of that
   cycle, and at no other step, however long the button is held. *)
C6_LowSpeedFlipsOnPressEdge ==
    [][(lowSpeed' # lowSpeed)
          <=> (pc = "lowspeed" /\ ~btnPrev["8R"] /\ btnCur["8R"])]_vars

\* The button is still down in a later cycle and the flag stayed flipped.
C6_Witness ==
    pc = "drive" /\ Get("8R") = "HELD" /\ lowSpeed /\ ~closeClaw /\ i = 0

\* What the call log shows: toggleBtnUpdateAll is the last call of the cycle
\* and only the delay follows it; when the delay is reached it has been
\* called, after the reads of group 8 RIGHT and LEFT.
UpdateAllLast ==
    /\ \A k \in 1..Len(calls) :
          calls[k][1] = "toggleBtnUpdateAll" => (k = Len(calls) /\ pc = "delay")
    /\ pc = "delay" =>
          /\ Len(calls) >= 3
          /\ calls[Len(calls)][1] = "toggleBtnUpdateAll"
          /\ calls[1] = <<"toggleBtnGet", "8R", calls[1][3]>>
          /\ calls[2] = <<"toggleBtnGet", "8L", calls[2][3]>>

(* C7: in every cycle toggleBtnUpdateAll is called exactly once, after every
   toggleBtnGet call of the cycle and before the delay; no other step
   changes a tracked level, so the reads of a cycle see the same state. *)
C7_UpdateAllOncePerCycle ==
    /\ []UpdateAllLast
    /\ [][pc # "update" => (btnPrev' = btnPrev /\ btnCur' = btnCur)]_vars

\* The delay is reached on the path with all four reads (8R, 8L, 8L, 8D).
C7_Witness ==
    /\ pc = "delay" /\ Len(calls) = 5
    /\ calls[4][2] = "8D" /\ calls[5][1] = "toggleBtnUpdateAll"

(* C19: closeClaw changes only in the claw code of a cycle with a press    *)
(* edge of the claw-toggle button or a release edge of the claw-open       *)
(* button, lowSpeed only in the toggle of a cycle with a press edge of the *)
(* low-speed button: no axis, no arm button and no held button changes     *)
(* either; and lowSpeed keeps its value from the drive code to the arm     *)
(* code of a cycle, so both halve by the same flag.                        *)
C19_FlagsChangeOnEdges ==
    [][/\ closeClaw' # closeClaw =>
             /\ pc = "claw"
             /\ Get("8D") = "PRESSED" \/ Get("8L") = "RELEASED"
       /\ lowSpeed' # lowSpeed => pc = "lowspeed" /\ Get("8R") = "PRESSED"
       /\ pc \in {"drive", "claw", "arm"} => lowSpeed' = lowSpeed]_vars

\* closeClaw taken back by a release edge, in low-speed mode.
C19_Witness ==
    /\ pre.valid
    /\ pre.closeClaw /\ ~closeClaw
    /\ OpenSt = "RELEASED"
    /\ lowSpeed

(***************************************************************************)
(* Properties of drive() (SpecDrive).                                      *)
(***************************************************************************)

(* C8: for all inputs of the valid range and both values of squareInputs,
   the speeds after normalisation are within [-MAX_SPEED, MAX_SPEED]. *)
C8_DriveBound ==
    drv.state = "returned" =>
        (Abs(drv.speed[1]) <= MAX_SPEED /\ Abs(drv.speed[2]) <= MAX_SPEED)

\* A mix above the range was scaled down, and rounding took it below the top.
C8_Witness ==
    /\ drv.state = "returned" /\ drv.divided
    /\ MaxRawSpeed(drv.mixed) > MAX_SPEED
    /\ MaxRawSpeed(drv.speed) = MAX_SPEED - 1

(* C9: when both mixed values are within [-MAX_SPEED, MAX_SPEED] the
   normalisation leaves them unchanged and divides nothing; forward = turn = 0
   gives left = right = 0. *)
C9_PassThrough ==
    drv.state = "returned" =>
      /\ (Abs(drv.mixed[1]) <= MAX_SPEED /\ Abs(drv.mixed[2]) <= MAX_SPEED)
            => (drv.speed = drv.mixed /\ ~drv.divided)
      /\ (drv.drive = 0 /\ drv.turn = 0) => drv.speed = <<0, 0>>

\* The largest mix that passes: exactly MAX_SPEED.
C9_Witness ==
    /\ drv.state = "returned" /\ ~drv.divided
    /\ MaxRawSpeed(drv.mixed) = MAX_SPEED /\ drv.speed = drv.mixed

(* C10 as claimed: the shaping f of drive(), as stored back in the integer,
   has f(0) = 0, f(MAX_SPEED) = MAX_SPEED, f(-x) = -f(x) and
   sign(f(x)) = sign(x) for every x of the valid range. *)
C10_ShapingKeepsSign ==
    (drv.state = "returned" /\ drv.squareInputs) =>
      /\ drv.argDrive = 0 => drv.drive = 0
      /\ drv.argDrive = MAX_SPEED => drv.drive = MAX_SPEED
      /\ SquareInput(-drv.argDrive) = -drv.drive
      /\ Sign(drv.drive) = Sign(drv.argDrive)

(* C10 amended: f(0) = 0, f(MAX_SPEED) = MAX_SPEED, f(-x) = -f(x); and
   sign(f(x)) = sign(x) for every x with x*x >= MAX_SPEED, while f(x) = 0
   for the x with x*x < MAX_SPEED (the result is truncated). *)
C10_ShapingProperties ==
    (drv.state = "returned" /\ drv.squareInputs) =>
      /\ drv.argDrive = 0 => drv.drive = 0
      /\ drv.argDrive = MAX_SPEED => drv.drive = MAX_SPEED
      /\ SquareInput(-drv.argDrive) = -drv.drive
      /\ drv.argDrive * drv.argDrive >= MAX_SPEED
            => Sign(drv.drive) = Sign(drv.argDrive)
      /\ drv.argDrive * drv.argDrive < MAX_SPEED => drv.drive = 0

\* The smallest negative input that is not shaped to 0.
C10_Witness ==
    /\ drv.state = "returned" /\ drv.squareInputs
    /\ drv.argDrive = -12 /\ drv.drive = -1

(***************************************************************************)
(* The tracker as the loop uses it (SpecTracker): button 8 RIGHT free in   *)
(* every cycle, the other inputs at rest.  The observer logs, for the last *)
(* LogLen cycles, the raw level the tracker holds for 8 RIGHT when line    *)
(* 147 reads it and the state toggleBtnGet returns there.                  *)
(***************************************************************************)
LogLen == 5

RightOnlyLevels == {f \in ButtonLevels : ~f["8L"] /\ ~f["8D"]}

LastOf(q, n) == IF Len(q) > n THEN SubSeq(q, Len(q) - n + 1, Len(q)) ELSE q

LogRead ==
    hist' = [hist EXCEPT !.log =
                LastOf(Append(hist.log, [lvl |-> btnCur["8R"],
                                         st |-> calls'[1][3]]), LogLen)]

NextTracker ==
    \/ LowSpeedToggle /\ LogRead
    \/ DriveCode(StickAtRest, StickAtRest) /\ UNCHANGED hist
    \/ ClawStep /\ UNCHANGED hist
    \/ ArmCode(StickAtRest) /\ UNCHANGED hist
    \/ UpdateAll(RightOnlyLevels) /\ UNCHANGED hist
    \/ Delay /\ UNCHANGED hist

SpecTracker == Init /\ [][NextTracker]_vars

\* The four cycles from k on have the raw levels low, high, high, low.
LowHighHighLow(k) ==
    /\ ~hist.log[k].lvl
    /\ hist.log[k + 1].lvl
    /\ hist.log[k + 2].lvl
    /\ ~hist.log[k + 3].lvl

\* The button was up before cycle k of the log: cycle k is the first cycle
\* of the run (the log has lost nothing yet), or the cycle before was low.
UpBefore(k) == IF k = 1 THEN Len(hist.log) < LogLen ELSE ~hist.log[k - 1].lvl

StatesFrom(k) == <<hist.log[k].st, hist.log[k + 1].st,
                   hist.log[k + 2].st, hist.log[k + 3].st>>

(* C13: with one read per cycle followed by one toggleBtnUpdateAll, a      *)
(* button that is up and then has the raw levels low, high, high, low over *)
(* four cycles is reported IDLE, PRESSED, HELD, RELEASED in them; PRESSED  *)
(* is reported in exactly the cycle of a rising edge and RELEASED in       *)
(* exactly the cycle of a falling edge, so neither is reported in two      *)
(* cycles running.                                                         *)
C13_TrackerSequence ==
    /\ \A k \in 1..(Len(hist.log) - 3) :
          LowHighHighLow(k) /\ UpBefore(k) =>
              StatesFrom(k) = <<"IDLE", "PRESSED", "HELD", "RELEASED">>
    /\ \A k \in 2..Len(hist.log) :
          /\ hist.log[k].st = "PRESSED" <=>
                 (~hist.log[k - 1].lvl /\ hist.log[k].lvl)
          /\ hist.log[k].st = "RELEASED" <=>
                 (hist.log[k - 1].lvl /\ ~hist.log[k].lvl)
          /\ hist.log[k].st = hist.log[k - 1].st =>
                 hist.log[k].st \in {"IDLE", "HELD"}

\* The four reports of a press held for two cycles, in the log.
C13_Witness ==
    \E k \in 1..(Len(hist.log) - 3) :
        /\ LowHighHighLow(k)
        /\ StatesFrom(k) = <<"IDLE", "PRESSED", "HELD", "RELEASED">>

(***************************************************************************)
(* The claw over a whole run (SpecClaw): the buttons 8 LEFT and 8 DOWN     *)
(* free in every cycle, the other inputs at rest.  The observer of the     *)
(* claw code keeps                                                         *)
(*  - openUsed: the claw-open button has been other than IDLE in some      *)
(*    cycle of the run; net: while it has not, the number of cycles the    *)
(*    claw motor was sent CLAW_SPEED less the number it was sent           *)
(*    -CLAW_SPEED;                                                         *)
(*  - run: while the claw-open button is unused and closeClaw has stayed   *)
(*    false since it was last toggled to false, the counter k at that      *)
(*    toggle and the number n of cycles since, that of the toggle          *)
(*    included (n stops counting at k + 1);                                *)
(*  - steady: the number of cycles running, this one included, in which    *)
(*    neither claw button changed its raw level (it stops counting at      *)
(*    CLAW_OPEN_DURATION).                                                 *)
(***************************************************************************)
ClawLevels == {f \in ButtonLevels : ~f["8R"]}

NetAfter(net, cmd) ==
    IF cmd = CLAW_SPEED THEN net + 1
    ELSE IF cmd = -CLAW_SPEED THEN net - 1
    ELSE net

RunAfter(run, ccBefore, ccAfter, iBefore) ==
    IF ccAfter THEN NoRun
    ELSE IF ccBefore THEN [on |-> TRUE, k |-> iBefore, n |-> 1]
    ELSE IF run.on THEN [run EXCEPT !.n = IF run.n > run.k THEN run.n ELSE run.n + 1]
    ELSE NoRun

Unchanged(b) == btnPrev[b] = btnCur[b]

SteadyAfter(n) ==
    IF Unchanged("8L") /\ Unchanged("8D")
    THEN (IF n < CLAW_OPEN_DURATION THEN n + 1 ELSE n)
    ELSE 0

ClawWatch ==
    LET used == hist.openUsed \/ Get("8L") # "IDLE" IN
    hist' = [hist EXCEPT
                !.openUsed = used,
                !.net = IF used THEN 0 ELSE NetAfter(hist.net, sent'[1][2]),
                !.run = IF used THEN NoRun
                        ELSE RunAfter(hist.run, closeClaw, closeClaw', i),
                !.steady = SteadyAfter(hist.steady)]

NextClaw ==
    \/ LowSpeedToggle /\ UNCHANGED hist
    \/ DriveCode(StickAtRest, StickAtRest) /\ UNCHANGED hist
    \/ ClawStep /\ ClawWatch
    \/ ArmCode(StickAtRest) /\ UNCHANGED hist
    \/ UpdateAll(ClawLevels) /\ UNCHANGED hist
    \/ Delay /\ UNCHANGED hist

SpecClaw == Init /\ [][NextClaw]_vars

(* C14: as long as the claw-open button is not used, the counter equals    *)
(* the number of cycles the claw motor has been sent CLAW_SPEED since the  *)
(* start less the number of cycles it has been sent -CLAW_SPEED; and once  *)
(* closeClaw is toggled to false at counter k, the motor is sent           *)
(* -CLAW_SPEED in exactly the k cycles from the toggle on and 0 after      *)
(* them, for as long as closeClaw stays false.                             *)
C14_PositionSymmetry ==
    ~hist.openUsed =>
        /\ i = hist.net
        /\ pre.valid /\ hist.run.on =>
              /\ ClawCmd = -CLAW_SPEED <=> hist.run.n <= hist.run.k
              /\ ClawCmd = 0 <=> hist.run.n > hist.run.k

\* Toggled to false at counter 7: seven opening cycles done, the motor at 0.
C14_Witness ==
    /\ ~hist.openUsed
    /\ pre.valid
    /\ hist.run = [on |-> TRUE, k |-> 7, n |-> 8]
    /\ ClawCmd = 0
    /\ hist.net = 0

\* Neither claw button has changed its raw level for CLAW_OPEN_DURATION
\* cycles, the one whose claw code has just run included.
Settled == pre.valid /\ hist.steady = CLAW_OPEN_DURATION

GripOnlyAtFullCount ==
    pre.valid /\ ClawCmd = GRIP_STRENGTH =>
        closeClaw /\ i = CLAW_OPEN_DURATION

(* C15, as stated: once neither claw button changes any more, within       *)
(* CLAW_OPEN_DURATION cycles the claw command is constant: GRIP_STRENGTH   *)
(* with the counter at CLAW_OPEN_DURATION if closeClaw is true, 0 with the *)
(* counter at 0 if closeClaw is false and the claw-open button is up; and  *)
(* GRIP_STRENGTH is sent only with closeClaw true and the counter at       *)
(* CLAW_OPEN_DURATION.                                                     *)
C15_ClawSettles ==
    /\ Settled =>
          /\ closeClaw => ClawCmd = GRIP_STRENGTH /\ i = CLAW_OPEN_DURATION
          /\ ~closeClaw /\ ~btnCur["8L"] => ClawCmd = 0 /\ i = 0
    /\ GripOnlyAtFullCount

(* C15, amended: the grip is reached only with the claw-open button up     *)
(* too; while that button stays down the command is -CLAW_SPEED, whatever  *)
(* closeClaw is.                                                           *)
C15_ClawSettlesOpenUp ==
    /\ Settled =>
          /\ closeClaw /\ ~btnCur["8L"] =>
                ClawCmd = GRIP_STRENGTH /\ i = CLAW_OPEN_DURATION
          /\ ~closeClaw /\ ~btnCur["8L"] => ClawCmd = 0 /\ i = 0
          /\ btnCur["8L"] => ClawCmd = -CLAW_SPEED
    /\ GripOnlyAtFullCount

\* The grip held after a full closing sequence, the buttons left alone.
C15_Witness ==
    /\ Settled
    /\ closeClaw
    /\ ~btnCur["8L"]
    /\ pre.i = CLAW_OPEN_DURATION
    /\ sc.ph = "closing"
    /\ ClawCmd = GRIP_STRENGTH

(***************************************************************************)
(* The loop with the sticks moving (SpecSticks): the drive, turn and arm   *)
(* axes on sample values, the arm buttons and 8 RIGHT free, the claw       *)
(* buttons up.  The observers keep, for the cycle in progress,             *)
(*  - call: the arguments of the drive() call of lines 163-167 and the     *)
(*    filter memory it started from (until the next step);                 *)
(*  - ctl: the level of 6 UP read in line 154, the turn axis and the       *)
(*    turnSpeed of lines 154-158, and the level of 6 UP read in line 199   *)
(*    (until toggleBtnUpdateAll).                                          *)
(***************************************************************************)
TurnAxisSamples == {-MAX_SPEED, 0, 65}

DriveWatch(d, t, up, down) ==
    hist' = [hist EXCEPT
                !.call = [on |-> TRUE,
                          args |-> DriveArgs(lowSpeed, d, TurnSpeed(up, down, t)),
                          last |-> <<lastSpeed["FL"], lastSpeed["FR"]>>],
                !.ctl = [seen |-> "drive", up154 |-> up, turnAxis |-> t,
                         turnSpeed |-> TurnSpeed(up, down, t),
                         up199 |-> FALSE]]

CallOver == hist' = [hist EXCEPT !.call = NoCall]

ArmWatch(up) == hist' = [hist EXCEPT !.ctl.seen = "arm", !.ctl.up199 = up]

CycleOver == hist' = [hist EXCEPT !.ctl = NoCtl]

NextSticks ==
    \/ LowSpeedToggle /\ UNCHANGED hist
    \/ \E d \in DriveAxisSamples, t \in TurnAxisSamples,
          up \in BOOLEAN, down \in BOOLEAN :
            DriveWith(d, t, up, down) /\ DriveWatch(d, t, up, down)
    \/ ClawStep /\ CallOver
    \/ \E up \in BOOLEAN, a \in ArmAxisSamples : ArmWith(up, a) /\ ArmWatch(up)
    \/ UpdateAll(RightOnlyLevels) /\ CycleOver
    \/ Delay /\ UNCHANGED hist

SpecSticks == Init /\ [][NextSticks]_vars

\* The speeds drive() hands to the filter when called (with squareInputs
\* true) on the arguments a: shaped, mixed, then normalised.
FilterInput(a) == Normalize(Mix(SquareInput(a[1]), SquareInput(a[2]))).speed

(* C16: in every cycle the mixed speeds are normalised before they are     *)
(* filtered, and every value sent to a drive motor is the output of the    *)
(* filter in that cycle: the front and the back motor of a side are sent   *)
(* the same value, the one the filter gives for the normalised speed of    *)
(* the side and keeps as the memory of its channel.                        *)
C16_DriveOutputPath ==
    hist.call.on =>
        LET in == FilterInput(hist.call.args)
            fl == getfSpeed(hist.call.last[1], in[1])
            fr == getfSpeed(hist.call.last[2], in[2])
        IN  /\ Abs(in[1]) <= MAX_SPEED /\ Abs(in[2]) <= MAX_SPEED
            /\ sent = << <<"FL", fl>>, <<"FR", fr>>, <<"BL", fl>>, <<"BR", fr>> >>
            /\ lastSpeed = [c \in {"FL", "FR"} |-> IF c = "FL" THEN fl ELSE fr]

\* A cycle in which all three stages act: the mixed speeds (0, -254) are
\* scaled down to (0, -127), and the filter, at 0 on the right, lets the
\* right side fall only by its step.
C16_Witness ==
    /\ hist.call.on
    /\ hist.call.args = <<MAX_SPEED, -MAX_SPEED>>
    /\ hist.call.last = <<0, 0>>
    /\ FilterInput(hist.call.args) = <<0, -MAX_SPEED>>
    /\ sent[2] = <<"FR", -FILTER_STEP>>
    /\ sent[4] = <<"BR", -FILTER_STEP>>

\* The arm code of the cycle has run, and 6 UP had the same level at both
\* places it is read in the cycle (lines 154 and 199).
ArmButtonStable == hist.ctl.seen = "arm" /\ hist.ctl.up154 = hist.ctl.up199

(* C18: the turn is forced to 0 in exactly the cycles in which the arm     *)
(* speed is taken from the arm axis, and no cycle sends a nonzero arm      *)
(* command together with a nonzero turn.  Stated for the cycles in which   *)
(* 6 UP does not change between its two reads and the turn axis is off     *)
(* centre, where "forced to 0" can be told from the turnSpeed of line 155. *)
C18_TurnSuppressionMatchesArm ==
    ArmButtonStable /\ hist.ctl.turnAxis # 0 =>
        /\ hist.ctl.turnSpeed = 0 <=> hist.ctl.up199
        /\ ~(sent[1][2] # 0 /\ hist.ctl.turnSpeed # 0)

(***************************************************************************)
(* The loop with the arm axis on its whole range (SpecArm): the drive      *)
(* sticks at rest, at most one of the three tracked buttons down at a      *)
(* time.                                                                   *)
(***************************************************************************)
OneButtonLevels ==
    {f \in ButtonLevels : Cardinality({b \in Tracked : f[b]}) <= 1}

NextArm ==
    \/ LowSpeedToggle /\ UNCHANGED hist
    \/ DriveCode(StickAtRest, StickAtRest) /\ UNCHANGED hist
    \/ ClawStep /\ UNCHANGED hist
    \/ ArmCode(SpeedRange) /\ UNCHANGED hist
    \/ UpdateAll(OneButtonLevels) /\ UNCHANGED hist
    \/ Delay /\ UNCHANGED hist

SpecArm == Init /\ [][NextArm]_vars

\* The values of the motorSet calls of the latest step to the channels chs.
SentTo(chs) == {sent[k][2] : k \in {n \in 1..Len(sent) : sent[n][1] \in chs}}

(* C12: every value sent to the claw motor and to the two arm motors lies  *)
(* in [-MAX_SPEED, MAX_SPEED], for every value of the arm axis in that     *)
(* range and both values of lowSpeed, and the claw command is always one   *)
(* of CLAW_SPEED, -CLAW_SPEED, GRIP_STRENGTH and 0.                        *)
C12_ClawArmRange ==
    /\ SentTo({"CLAW", "LARM", "RARM"}) \subseteq SpeedRange
    /\ SentTo({"CLAW"}) \subseteq {CLAW_SPEED, -CLAW_SPEED, GRIP_STRENGTH, 0}
    /\ pc = "arm" => Cardinality(SentTo({"CLAW"})) = 1
    /\ pc = "update" => SentTo({"LARM"}) # {} /\ SentTo({"RARM"}) # {}

\* The arm at full speed in low-speed mode while the claw holds its grip.
C12_Witness ==
    /\ pc = "update"
    /\ lowSpeed
    /\ sent = << <<"LARM", -(MAX_SPEED \div LOW_SPEED_DIVISOR)>>,
                 <<"RARM", MAX_SPEED \div LOW_SPEED_DIVISOR>> >>
    /\ closeClaw
    /\ i = CLAW_OPEN_DURATION

(* C17: in every cycle the command of the right arm motor is the negation  *)
(* of the command of the left arm motor, for every value of the arm axis   *)
(* and both values of lowSpeed, and the arm code neither reads nor writes  *)
(* the memory of the velocity filter: the two commands are the only        *)
(* motorSet calls of the step and the filter memory is the same after it.  *)
C17_ArmSymmetry ==
    /\ [](pc = "update" =>
            /\ Len(sent) = 2
            /\ sent[1][1] = "LARM" /\ sent[2][1] = "RARM"
            /\ sent[2][2] = -sent[1][2])
    /\ [][pc = "arm" => lastSpeed' = lastSpeed]_vars

\* An odd arm speed halved: 33 and -33 come out 16 and -16.
C17_Witness ==
    /\ pc = "update"
    /\ lowSpeed
    /\ sent = << <<"LARM", 16>>, <<"RARM", -16>> >>

(***************************************************************************)
(* Restart of the task (SpecTask).                                         *)
(***************************************************************************)
\* The step that takes operatorControl() from its entry into the loop.
EntersLoop == pc = "start" /\ pc' = "lowspeed"

(* C11: whenever operatorControl() is started, for the first time or after *)
(* having been stopped at any point, everything the loop depends on has    *)
(* its initial value before the first cycle of the run: lowSpeed and       *)
(* closeClaw false, the counter 0, the filter memory of every channel 0,   *)
(* the tracked level of every button low.                                  *)
C11_RestartFromInitialState ==
    [][EntersLoop =>
         /\ lowSpeed' = FALSE
         /\ closeClaw' = FALSE
         /\ i' = 0
         /\ lastSpeed' = [c \in {"FL", "FR"} |-> 0]
         /\ btnPrev' = [b \in Tracked |-> FALSE]
         /\ btnCur' = [b \in Tracked |-> FALSE]]_vars

\* The buttons the cycle has queried with toggleBtnGet so far.
Queried == {calls[k][2] : k \in {n \in 1..Len(calls) : calls[n][1] = "toggleBtnGet"}}

(* C20: every cycle sends exactly one command to each of the seven motor   *)
(* channels, on every path through the claw code and for every input (no   *)
(* channel is sent two commands, and none is left without when the cycle   *)
(* reaches toggleBtnUpdateAll); and every button the loop queries with     *)
(* toggleBtnGet was registered with toggleBtnInit before the first cycle.  *)
C20_OneCommandPerChannel ==
    /\ \A ch \in Channels : nSet[ch] <= 1
    /\ pc \in {"update", "delay"} => \A ch \in Channels : nSet[ch] = 1
    /\ Queried \subseteq registered
    /\ pc # "start" => {"8L", "8R", "8D"} \subseteq registered

\* The end of a cycle that took the shortest path through the claw code
\* (8 LEFT HELD: one query there), the robot driving.
C20_Witness ==
    /\ pc = "delay"
    /\ \A ch \in Channels : nSet[ch] = 1
    /\ Queried = {"8R", "8L"}
    /\ lastSpeed["FL"] # 0
====
